---- MODULE Spec2Model ----
(***************************************************************************)
(* fleetfs: the request router of a storage node                           *)
(* (src/src/storage/message_handlers/router.rs) together with the          *)
(* collaborators it calls: the per-shard replicated log and storage        *)
(* engine, the read protocol and the transaction coordinator.  The router  *)
(* is translated from router.rs; the collaborators, whose code is not in   *)
(* router.rs, follow the design document (spec.md).                        *)
(*                                                                         *)
(* Five specifications share the module:                                   *)
(*   Spec        the namespace sagas run against two shards' logs          *)
(*   ReadSpec    the read protocol of the Read arm against one replica     *)
(*   RouterSpec  request_router on one node, one request at a time, with   *)
(*               every collaborator outcome                                *)
(*   LocalitySpec  can_handle_locally over every routing metadata          *)
(*   DeliverySpec  primitives delivered to their shard, some of them twice *)
(***************************************************************************)
EXTENDS Integers, Sequences, FiniteSets, TLC

\* ------------------------------------------------------------------------
\* Bounds of the model
\* ------------------------------------------------------------------------
MaxTxn == 2
MaxInode == 6
MaxWrites == 3
MaxApplied == 3
MaxDeliveries == 4

\* ------------------------------------------------------------------------
\* Shards, inodes, names
\* ------------------------------------------------------------------------
Shards == {0, 1}
NumShards == Cardinality(Shards)
Names == {"a", "b"}
NoInode == 0
NoGroup == -1
Parents == {1, 2}
Txns == 1 .. MaxTxn

\* The partitioning function of the shard manager: inode -> owning shard.
ShardOf(inode) == inode % NumShards

\* LocalRaftGroupManager::lookup_by_inode / lookup_by_raft_group: the handle
\* of the shard owning the inode / named by the id.
lookup_by_inode(inode) == ShardOf(inode)
lookup_by_raft_group(raft_group) == raft_group

\* ------------------------------------------------------------------------
\* Requests and responses.  A request value stands for its encoded bytes.
\* ------------------------------------------------------------------------
Request(kind, parent, name, new_parent, new_name, inode, raft_group, fkind) ==
    [kind |-> kind, parent |-> parent, name |-> name,
     new_parent |-> new_parent, new_name |-> new_name, inode |-> inode,
     raft_group |-> raft_group, fkind |-> fkind, index |-> 0]

Ok(v) == [ok |-> TRUE, val |-> v, err |-> ""]
Err(e) == [ok |-> FALSE, val |-> NoInode, err |-> e]
NoResponse == [ok |-> FALSE, val |-> NoInode, err |-> "none"]

CreateInodeReq(parent, fkind, raft_group) ==
    Request("CreateInode", parent, "", NoInode, "", NoInode, raft_group, fkind)
CreateLinkReq(parent, name, inode, fkind) ==
    Request("CreateLink", parent, name, NoInode, "", inode, NoGroup, fkind)
RemoveLinkReq(parent, name) ==
    Request("RemoveLink", parent, name, NoInode, "", NoInode, NoGroup, "")
HardlinkIncrementReq(inode) ==
    Request("HardlinkIncrement", NoInode, "", NoInode, "", inode, NoGroup, "")
HardlinkRollbackReq(inode) ==
    Request("HardlinkRollback", NoInode, "", NoInode, "", inode, NoGroup, "")
DecrementInodeReq(inode) ==
    Request("DecrementInode", NoInode, "", NoInode, "", inode, NoGroup, "")
UpdateParentReq(inode, new_parent) ==
    Request("UpdateParent", NoInode, "", new_parent, "", inode, NoGroup, "")

\* ------------------------------------------------------------------------
\* The storage engine of one shard: the state machine its log is applied to
\* ------------------------------------------------------------------------
InodeRec(fkind, nlink, parent) ==
    [kind |-> fkind, nlink |-> nlink, parent |-> parent, data |-> 0]

\* A filesystem holding the root directory 1 (shard 1), the directory 2
\* (shard 0) linked in the root as "p2", and the file 3 (shard 1) linked in
\* the root as "a".
InitShardState(s) ==
    IF s = ShardOf(1)
    THEN [inodes |-> (1 :> InodeRec("Directory", 1, 1)) @@ (3 :> InodeRec("File", 1, NoInode)),
          entries |-> {[parent |-> 1, name |-> "p2", inode |-> 2, kind |-> "Directory"],
                       [parent |-> 1, name |-> "a", inode |-> 3, kind |-> "File"]},
          next |-> 5]
    ELSE [inodes |-> (2 :> InodeRec("Directory", 1, 1)),
          entries |-> {},
          next |-> 4]

EntriesOf(fs, parent, name) ==
    {e \in fs.entries : e.parent = parent /\ e.name = name}

\* FileStorage::lookup: the inode linked as name in parent, NoInode if none.
Child(fs, parent, name) ==
    IF EntriesOf(fs, parent, name) = {} THEN NoInode
    ELSE (CHOOSE e \in EntriesOf(fs, parent, name) : TRUE).inode

\* The kind recorded in the directory entry, "" if there is none.
ChildKind(fs, parent, name) ==
    IF EntriesOf(fs, parent, name) = {} THEN ""
    ELSE (CHOOSE e \in EntriesOf(fs, parent, name) : TRUE).kind

Without(f, x) == [i \in DOMAIN f \ {x} |-> f[i]]

Kept(fs, res) == [fs |-> fs, res |-> res]

ApplyCreateInode(fs, r) ==
    LET i == fs.next
    IN  Kept([fs EXCEPT !.inodes = (i :> InodeRec(r.fkind, 1, r.parent)) @@ @,
                        !.next = i + NumShards],
             Ok(i))

ApplyCreateLink(fs, r) ==
    IF r.parent \notin DOMAIN fs.inodes THEN Kept(fs, Err("DoesNotExist"))
    ELSE IF fs.inodes[r.parent].kind # "Directory" THEN Kept(fs, Err("InvalidArgs"))
    ELSE IF EntriesOf(fs, r.parent, r.name) # {} THEN Kept(fs, Err("AlreadyExists"))
    ELSE Kept([fs EXCEPT !.entries = @ \cup
                  {[parent |-> r.parent, name |-> r.name, inode |-> r.inode,
                    kind |-> r.fkind]}],
              Ok(r.inode))

ApplyRemoveLink(fs, r) ==
    IF EntriesOf(fs, r.parent, r.name) = {} THEN Kept(fs, Err("DoesNotExist"))
    ELSE Kept([fs EXCEPT !.entries = @ \ EntriesOf(fs, r.parent, r.name)],
              Ok(Child(fs, r.parent, r.name)))

ApplyReplaceLink(fs, r) ==
    IF EntriesOf(fs, r.parent, r.name) = {} THEN Kept(fs, Err("DoesNotExist"))
    ELSE Kept([fs EXCEPT !.entries = (@ \ EntriesOf(fs, r.parent, r.name)) \cup
                  {[parent |-> r.parent, name |-> r.name, inode |-> r.inode,
                    kind |-> r.fkind]}],
              Ok(Child(fs, r.parent, r.name)))

ApplyHardlinkIncrement(fs, r) ==
    IF r.inode \notin DOMAIN fs.inodes THEN Kept(fs, Err("DoesNotExist"))
    ELSE Kept([fs EXCEPT !.inodes[r.inode].nlink = @ + 1], Ok(r.inode))

ApplyHardlinkRollback(fs, r) ==
    IF r.inode \notin DOMAIN fs.inodes THEN Kept(fs, Err("DoesNotExist"))
    ELSE Kept([fs EXCEPT !.inodes[r.inode].nlink = @ - 1], Ok(r.inode))

\* decrement-inode: the inode is deleted once its link count reaches zero.
ApplyDecrementInode(fs, r) ==
    IF r.inode \notin DOMAIN fs.inodes THEN Kept(fs, Err("DoesNotExist"))
    ELSE IF fs.inodes[r.inode].nlink - 1 <= 0
    THEN Kept([fs EXCEPT !.inodes = Without(@, r.inode)], Ok(r.inode))
    ELSE Kept([fs EXCEPT !.inodes[r.inode].nlink = @ - 1], Ok(r.inode))

ApplyUpdateParent(fs, r) ==
    IF r.inode \notin DOMAIN fs.inodes THEN Kept(fs, Err("DoesNotExist"))
    ELSE Kept([fs EXCEPT !.inodes[r.inode].parent = r.new_parent], Ok(r.inode))

\* One committed request applied to a shard's state: the new state and the
\* result returned to the proposer.
\* A write extends the file: data counts the writes the inode holds.
ApplyWrite(fs, r) ==
    IF r.inode \notin DOMAIN fs.inodes THEN Kept(fs, Err("DoesNotExist"))
    ELSE [fs |-> [fs EXCEPT !.inodes[r.inode].data = @ + 1],
          res |-> Ok(fs.inodes[r.inode].data + 1)]

\* FileStorage::read: the data the inode holds in this state.
ReadData(fs, inode) ==
    IF inode \notin DOMAIN fs.inodes THEN Err("DoesNotExist")
    ELSE Ok(fs.inodes[inode].data)

Apply(fs, r) ==
    CASE r.kind = "CreateInode" -> ApplyCreateInode(fs, r)
      [] r.kind = "CreateLink" -> ApplyCreateLink(fs, r)
      [] r.kind = "RemoveLink" -> ApplyRemoveLink(fs, r)
      [] r.kind = "ReplaceLink" -> ApplyReplaceLink(fs, r)
      [] r.kind = "HardlinkIncrement" -> ApplyHardlinkIncrement(fs, r)
      [] r.kind = "HardlinkRollback" -> ApplyHardlinkRollback(fs, r)
      [] r.kind = "DecrementInode" -> ApplyDecrementInode(fs, r)
      [] r.kind = "UpdateParent" -> ApplyUpdateParent(fs, r)
      [] r.kind = "Write" -> ApplyWrite(fs, r)
      [] OTHER -> Kept(fs, Ok(r.inode))

\* ------------------------------------------------------------------------
\* State
\* ------------------------------------------------------------------------
VARIABLES
    log,      \* per shard, the committed entries [req, res, by]
    fs,       \* per shard, the leader's storage state (the log applied)
    txn,      \* Spec: per client, the request it issued and its progress
    applied,  \* ReadSpec: per shard, the index the local replica has applied
    rd,       \* ReadSpec: the Read request in progress on this node
    hosted,   \* RouterSpec, LocalitySpec: the shards this node hosts
    aligned,  \* RouterSpec: the request bytes request_router received
    meta,     \* RouterSpec, LocalitySpec: the request's routing metadata
    handled,  \* RouterSpec, LocalitySpec: can_handle_locally's answer
    outcome,  \* RouterSpec: what each collaborator answered for this request
    calls,    \* RouterSpec: the collaborator calls made for this request
    returned  \* RouterSpec: what the caller of request_router got

sagaVars == <<log, fs, txn>>
readVars == <<applied, rd>>
routerVars == <<hosted, aligned, meta, handled, outcome, calls, returned>>
vars == <<log, fs, txn, applied, rd, hosted, aligned, meta, handled, outcome,
          calls, returned>>

\* The storage state of shard s after the first i entries of its log.
RECURSIVE StateAt(_, _)
StateAt(s, i) ==
    IF i = 0 THEN InitShardState(s)
    ELSE Apply(StateAt(s, i - 1), log[s][i].req).fs

\* ------------------------------------------------------------------------
\* request_router_inner: the arms that resolve a shard and propose
\* ------------------------------------------------------------------------
LinkPrimitives == {"CreateLink", "RemoveLink", "ReplaceLink"}
InodePrimitives == {"HardlinkRollback", "HardlinkIncrement", "DecrementInode",
                    "UpdateParent", "UpdateMetadataChangedTime"}
Mutations == {"Write", "Lock", "Unlock", "Fsync", "Chmod", "Chown", "Truncate",
              "SetXattr", "RemoveXattr", "Utimens"}

\* The arm's pattern binds `inode` to the parent field of the link
\* primitives and to the inode field of the others.
PrimitiveInodeSwapped(r) ==
    IF r.kind \in LinkPrimitives THEN r.inode ELSE r.parent

PrimitiveInode(r) ==
    IF r.kind \in LinkPrimitives THEN r.parent ELSE r.inode

ProposeShardByInodeOnly(r) == lookup_by_inode(r.inode)

\* The shard whose propose_raw the arm calls.
ProposeShard(r) ==
    IF r.kind = "CreateInode" THEN lookup_by_raft_group(r.raft_group)
    ELSE lookup_by_inode(PrimitiveInode(r))

\* ------------------------------------------------------------------------
\* request_router_inner: the arms that call the transaction coordinator
\* ------------------------------------------------------------------------
Args(op, parent, name, new_parent, new_name, inode, fkind) ==
    [op |-> op, parent |-> parent, name |-> name, new_parent |-> new_parent,
     new_name |-> new_name, inode |-> inode, fkind |-> fkind]

NoArgs == Args("", NoInode, "", NoInode, "", NoInode, "")

UnlinkArm(r) == Args("unlink", r.parent, r.name, NoInode, "", NoInode, "")

RmdirArm(r) == Args("rmdir", r.parent, r.name, NoInode, "", NoInode, "")

MkdirArmAsRmdir(r) == RmdirArm(r)

MkdirArm(r) == Args("create", r.parent, r.name, NoInode, "", NoInode, "Directory")

CreateArm(r) == Args("create", r.parent, r.name, NoInode, "", NoInode, r.fkind)

HardlinkArm(r) ==
    Args("hardlink", NoInode, "", r.new_parent, r.new_name, r.inode, "")

RenameArmSwapped(r) ==
    Args("rename", r.new_parent, r.new_name, r.parent, r.name, NoInode, "")

RenameArm(r) ==
    Args("rename", r.parent, r.name, r.new_parent, r.new_name, NoInode, "")

TransactionArm(r) ==
    CASE r.kind = "Unlink" -> UnlinkArm(r)
      [] r.kind = "Rmdir" -> RmdirArm(r)
      [] r.kind = "Mkdir" -> MkdirArm(r)
      [] r.kind = "Create" -> CreateArm(r)
      [] r.kind = "Hardlink" -> HardlinkArm(r)
      [] r.kind = "Rename" -> RenameArm(r)
      [] OTHER -> NoArgs

\* ------------------------------------------------------------------------
\* The read protocol as the Lookup arm uses it
\* ------------------------------------------------------------------------
\* ShardHandle::sync(target) returns once the local replica has applied its
\* log up to target: the indexes the replica can then be at.
SyncedIndexes(s, target) == target .. Len(log[s])

LookupArmNoSync(s, latest) == 0 .. Len(log[s])

\* Lookup arm: sync_with_leader(...).await? precedes file_storage().lookup.
LookupArm(s, latest) == SyncedIndexes(s, latest)

\* ------------------------------------------------------------------------
\* Client requests
\* ------------------------------------------------------------------------
CreateRequest(parent, name, fkind) ==
    Request("Create", parent, name, NoInode, "", NoInode, NoGroup, fkind)
MkdirRequest(parent, name) ==
    Request("Mkdir", parent, name, NoInode, "", NoInode, NoGroup, "")
UnlinkRequest(parent, name) ==
    Request("Unlink", parent, name, NoInode, "", NoInode, NoGroup, "")
RmdirRequest(parent, name) ==
    Request("Rmdir", parent, name, NoInode, "", NoInode, NoGroup, "")
HardlinkRequest(inode, new_parent, new_name) ==
    Request("Hardlink", NoInode, "", new_parent, new_name, inode, NoGroup, "")
RenameRequest(parent, name, new_parent, new_name) ==
    Request("Rename", parent, name, new_parent, new_name, NoInode, NoGroup, "")
LookupRequest(parent, name) ==
    Request("Lookup", parent, name, NoInode, "", NoInode, NoGroup, "")
NoRequest == Request("", NoInode, "", NoInode, "", NoInode, NoGroup, "")

AllEntries == UNION {{log[s][i] : i \in 1 .. Len(log[s])} : s \in Shards}

\* The files a client can name by inode id: an inode id reaches a client
\* only through a directory entry, so these are the files linked at some time.
KnownFiles ==
    {e.inode : e \in {x \in UNION {InitShardState(s).entries : s \in Shards} :
                         x.kind = "File"}}
    \cup {e.req.inode : e \in {x \in AllEntries :
             x.req.kind = "CreateLink" /\ x.res.ok /\ x.req.fkind = "File"}}

SagaRequests ==
    {CreateRequest(p, n, "File") : p \in Parents, n \in Names}
    \cup {MkdirRequest(p, n) : p \in Parents, n \in Names}
    \cup {UnlinkRequest(p, n) : p \in Parents, n \in Names}
    \cup {RmdirRequest(p, n) : p \in Parents, n \in Names}
    \cup {HardlinkRequest(i, p, n) : i \in KnownFiles, p \in Parents, n \in Names}
    \cup {r \in {RenameRequest(p, n, q, m) : p \in Parents, n \in Names,
                                              q \in Parents, m \in Names} :
             <<r.parent, r.name>> # <<r.new_parent, r.new_name>>}


\* ------------------------------------------------------------------------
\* The transaction coordinator: one saga per client request.  Each step is
\* one proposal, routed by ProposeShard as the router's primitive arms do;
\* the next step is taken once the proposal's result is back.
\* ------------------------------------------------------------------------
IdleTxn ==
    [pc |-> "idle", req |-> NoRequest, args |-> NoArgs, inode |-> NoInode,
     fkind |-> "", err |-> "", res |-> NoResponse, comp |-> "none",
     lkreq |-> NoRequest, latest |-> 0, lkres |-> NoResponse]

\* A proposal either is committed and applied, returning the storage
\* engine's result, or fails without being committed (no leader, no quorum,
\* the owning node unreachable).
Outcomes(r) ==
    {[committed |-> TRUE, res |-> Apply(fs[ProposeShard(r)], r).res],
     [committed |-> FALSE, res |-> Err("RaftFailure")]}

Commit(t, r, o) ==
    IF o.committed
    THEN LET s == ProposeShard(r)
         IN  /\ log' = [log EXCEPT ![s] = Append(@, [req |-> r, res |-> o.res, by |-> t])]
             /\ fs' = [fs EXCEPT ![s] = Apply(fs[s], r).fs]
             /\ UNCHANGED <<readVars, routerVars>>
    ELSE UNCHANGED <<log, fs, readVars, routerVars>>

FirstStep(args) ==
    CASE args.op = "create" -> "create_inode"
      [] args.op \in {"unlink", "rmdir"} -> "remove_link"
      [] args.op = "hardlink" -> "hardlink_increment"
      [] args.op = "rename" -> "rename_lookup"

\* A client issues a structural mutation; request_router_inner hands it to
\* the coordinator with the arguments its arm passes.
Start(t) ==
    /\ txn[t].pc = "idle"
    /\ \A u \in Txns : u < t => txn[u].pc # "idle"
    /\ \E r \in SagaRequests :
          txn' = [txn EXCEPT ![t] = [IdleTxn EXCEPT !.req = r,
                                        !.args = TransactionArm(r),
                                        !.pc = FirstStep(TransactionArm(r))]]
    /\ UNCHANGED <<log, fs, readVars, routerVars>>

\* create_transaction, step 1: create-inode on the shard chosen for the inode.
CreateInodeStep(t) ==
    /\ txn[t].pc = "create_inode"
    /\ \E g \in {x \in Shards : fs[x].next <= MaxInode} :
         LET r == CreateInodeReq(txn[t].args.parent, txn[t].args.fkind, g)
         IN  \E o \in Outcomes(r) :
               /\ Commit(t, r, o)
               /\ txn' = [txn EXCEPT ![t] =
                            IF o.res.ok
                            THEN [@ EXCEPT !.pc = "create_link", !.inode = o.res.val]
                            ELSE [@ EXCEPT !.pc = "done", !.res = o.res]]

\* create_transaction, step 2: create-link on the parent's shard.
CreateLinkStep(t) ==
    /\ txn[t].pc = "create_link"
    /\ LET r == CreateLinkReq(txn[t].args.parent, txn[t].args.name,
                              txn[t].inode, txn[t].args.fkind)
       IN  \E o \in Outcomes(r) :
             /\ Commit(t, r, o)
             /\ txn' = [txn EXCEPT ![t] =
                          IF o.res.ok
                          THEN [@ EXCEPT !.pc = "done", !.res = Ok(txn[t].inode)]
                          ELSE [@ EXCEPT !.pc = "create_rollback", !.err = o.res.err]]

\* create_transaction, compensation: decrement-inode on the created inode.
\* The caller gets the error of the failed create-link; when the
\* compensation fails too, that failure's error may be reported instead.
CreateRollbackStep(t) ==
    /\ txn[t].pc = "create_rollback"
    /\ LET r == DecrementInodeReq(txn[t].inode)
       IN  \E o \in Outcomes(r) :
             /\ Commit(t, r, o)
             /\ \E e \in {txn[t].err} \cup (IF o.res.ok THEN {} ELSE {o.res.err}) :
                  txn' = [txn EXCEPT ![t] =
                            [@ EXCEPT !.pc = "done", !.res = Err(e),
                                      !.comp = IF o.res.ok THEN "ok"
                                               ELSE IF o.committed THEN "rejected"
                                               ELSE "failed"]]

\* unlink_transaction / rmdir_transaction, step 1: remove-link on the
\* parent's shard, which returns the inode the name referred to.
RemoveLinkStep(t) ==
    /\ txn[t].pc = "remove_link"
    /\ LET r == RemoveLinkReq(txn[t].args.parent, txn[t].args.name)
       IN  \E o \in Outcomes(r) :
             /\ Commit(t, r, o)
             /\ txn' = [txn EXCEPT ![t] =
                          IF o.res.ok
                          THEN [@ EXCEPT !.pc = "decrement_inode", !.inode = o.res.val]
                          ELSE [@ EXCEPT !.pc = "done", !.res = o.res]]

\* unlink_transaction / rmdir_transaction, step 2: decrement-inode on the
\* child's shard.  A failure here is not compensated: the child is left as
\* an orphan and the outcome is a success.
DecrementInodeStep(t) ==
    /\ txn[t].pc = "decrement_inode"
    /\ LET r == DecrementInodeReq(txn[t].inode)
       IN  \E o \in Outcomes(r) :
             /\ Commit(t, r, o)
             /\ txn' = [txn EXCEPT ![t] =
                          [@ EXCEPT !.pc = "done", !.res = Ok(txn[t].inode),
                                    !.comp = IF o.res.ok THEN "none" ELSE "orphan"]]

\* hardlink_transaction, step 1: hardlink-increment on the inode's shard.
HardlinkIncrementStep(t) ==
    /\ txn[t].pc = "hardlink_increment"
    /\ LET r == HardlinkIncrementReq(txn[t].args.inode)
       IN  \E o \in Outcomes(r) :
             /\ Commit(t, r, o)
             /\ txn' = [txn EXCEPT ![t] =
                          IF o.res.ok
                          THEN [@ EXCEPT !.pc = "hardlink_link", !.inode = txn[t].args.inode]
                          ELSE [@ EXCEPT !.pc = "done", !.res = o.res]]

\* hardlink_transaction, step 2: create-link on the new parent's shard.
HardlinkLinkStep(t) ==
    /\ txn[t].pc = "hardlink_link"
    /\ LET r == CreateLinkReq(txn[t].args.new_parent, txn[t].args.new_name,
                              txn[t].inode, "File")
       IN  \E o \in Outcomes(r) :
             /\ Commit(t, r, o)
             /\ txn' = [txn EXCEPT ![t] =
                          IF o.res.ok
                          THEN [@ EXCEPT !.pc = "done", !.res = Ok(txn[t].inode)]
                          ELSE [@ EXCEPT !.pc = "hardlink_rollback", !.err = o.res.err]]

\* hardlink_transaction, compensation: hardlink-rollback on the inode's shard.
HardlinkRollbackStep(t) ==
    /\ txn[t].pc = "hardlink_rollback"
    /\ LET r == HardlinkRollbackReq(txn[t].inode)
       IN  \E o \in Outcomes(r) :
             /\ Commit(t, r, o)
             /\ \E e \in {txn[t].err} \cup (IF o.res.ok THEN {} ELSE {o.res.err}) :
                  txn' = [txn EXCEPT ![t] =
                            [@ EXCEPT !.pc = "done", !.res = Err(e),
                                      !.comp = IF o.res.ok THEN "ok"
                                               ELSE IF o.committed THEN "rejected"
                                               ELSE "failed"]]

\* rename_transaction: the object to move is looked up under its old name.
RenameLookupStep(t) ==
    /\ txn[t].pc = "rename_lookup"
    /\ LET a == txn[t].args
           s == lookup_by_inode(a.parent)
           c == Child(fs[s], a.parent, a.name)
       IN  \/ txn' = [txn EXCEPT ![t] =
                        IF c = NoInode
                        THEN [@ EXCEPT !.pc = "done", !.res = Err("DoesNotExist")]
                        ELSE [@ EXCEPT !.pc = "rename_link", !.inode = c,
                                       !.fkind = ChildKind(fs[s], a.parent, a.name)]]
           \/ txn' = [txn EXCEPT ![t] = [@ EXCEPT !.pc = "done", !.res = Err("RaftFailure")]]
    /\ UNCHANGED <<log, fs, readVars, routerVars>>

\* rename_transaction: create-link on the new parent's shard comes first.
RenameLinkStep(t) ==
    /\ txn[t].pc = "rename_link"
    /\ LET r == CreateLinkReq(txn[t].args.new_parent, txn[t].args.new_name,
                              txn[t].inode, txn[t].fkind)
       IN  \E o \in Outcomes(r) :
             /\ Commit(t, r, o)
             /\ txn' = [txn EXCEPT ![t] =
                          IF o.res.ok
                          THEN [@ EXCEPT !.pc = "rename_unlink"]
                          ELSE [@ EXCEPT !.pc = "done", !.res = o.res]]

\* rename_transaction: remove-link on the old parent's shard comes second.
RenameUnlinkStep(t) ==
    /\ txn[t].pc = "rename_unlink"
    /\ LET r == RemoveLinkReq(txn[t].args.parent, txn[t].args.name)
       IN  \E o \in Outcomes(r) :
             /\ Commit(t, r, o)
             /\ txn' = [txn EXCEPT ![t] =
                          IF ~o.res.ok
                          THEN [@ EXCEPT !.pc = "done", !.res = o.res]
                          ELSE IF txn[t].fkind = "Directory"
                                  /\ txn[t].args.new_parent # txn[t].args.parent
                          THEN [@ EXCEPT !.pc = "rename_parent"]
                          ELSE [@ EXCEPT !.pc = "done", !.res = Ok(txn[t].inode)]]

\* rename_transaction: update-parent on the moved directory's shard.
RenameParentStep(t) ==
    /\ txn[t].pc = "rename_parent"
    /\ LET r == UpdateParentReq(txn[t].inode, txn[t].args.new_parent)
       IN  \E o \in Outcomes(r) :
             /\ Commit(t, r, o)
             /\ txn' = [txn EXCEPT ![t] =
                          [@ EXCEPT !.pc = "done",
                                    !.res = IF o.res.ok THEN Ok(txn[t].inode) ELSE o.res]]

InSaga == {"create_inode", "create_link", "create_rollback", "remove_link",
           "decrement_inode", "hardlink_increment", "hardlink_link",
           "hardlink_rollback", "rename_lookup", "rename_link", "rename_unlink",
           "rename_parent"}

\* The coordinator is not replicated: the node running it can die between
\* any two steps, and the saga stops where it is.
Crash(t) ==
    /\ txn[t].pc \in InSaga
    /\ txn' = [txn EXCEPT ![t] = [@ EXCEPT !.pc = "crashed"]]
    /\ UNCHANGED <<log, fs, readVars, routerVars>>

\* The path a saga was to create, or else the one it was to remove.
TargetPath(a) ==
    IF a.op \in {"hardlink", "rename"} THEN <<a.new_parent, a.new_name>>
    ELSE <<a.parent, a.name>>

\* After its request has returned, the client looks the path up.
\* Lookup arm, first half (sync_with_leader): the leader of the parent's
\* shard reports its commit index, or the lookup of the leader fails.
LookupOpen(t) ==
    /\ txn[t].pc = "done"
    /\ LET r == LookupRequest(TargetPath(txn[t].args)[1], TargetPath(txn[t].args)[2])
       IN  \/ txn' = [txn EXCEPT ![t] =
                        [@ EXCEPT !.pc = "lookup_sync", !.lkreq = r,
                                  !.latest = Len(log[lookup_by_inode(r.parent)])]]
           \/ txn' = [txn EXCEPT ![t] =
                        [@ EXCEPT !.pc = "lookup_done", !.lkreq = r,
                                  !.lkres = Err("RaftFailure")]]
    /\ UNCHANGED <<log, fs, readVars, routerVars>>

\* Lookup arm, second half: once the local replica has caught up, the
\* storage engine answers from the replica's state.
LookupServe(t) ==
    /\ txn[t].pc = "lookup_sync"
    /\ LET r == txn[t].lkreq
           s == lookup_by_inode(r.parent)
       IN  \E i \in LookupArm(s, txn[t].latest) :
             LET c == Child(StateAt(s, i), r.parent, r.name)
             IN  txn' = [txn EXCEPT ![t] =
                           [@ EXCEPT !.pc = "lookup_done",
                                     !.lkres = IF c = NoInode THEN Err("DoesNotExist")
                                               ELSE Ok(c)]]
    /\ UNCHANGED <<log, fs, readVars, routerVars>>

\* ------------------------------------------------------------------------
\* request_router: locality, forwarding, dispatch (router.rs)
\* ------------------------------------------------------------------------
Requirements == {"Any", "TransactionCoordinator", "Node", "RaftGroup"}

Meta(requirement, raft_group, inode) ==
    [distribution_requirement |-> requirement, raft_group |-> raft_group,
     inode |-> inode]

NoMeta == Meta("", NoGroup, NoInode)

Transactions == {"Unlink", "Rmdir", "Mkdir", "Create", "Hardlink", "Rename"}
GroupRequests == {"CreateInode", "LatestCommit", "RaftGroupLeader", "RaftMessage"}
Queries == {"Read", "ReadRaw", "Lookup", "GetXattr", "GetAttr", "ListDir", "ListXattrs"}

\* ArchivedRkyvRequest::meta_info: the routing metadata a request carries.
meta_info(r) ==
    CASE r.kind \in {"FilesystemReady", "FilesystemInformation"} ->
            Meta("Any", NoGroup, NoInode)
      [] r.kind \in {"FilesystemCheck", "FilesystemChecksum"} ->
            Meta("Node", NoGroup, NoInode)
      [] r.kind \in Transactions ->
            Meta("TransactionCoordinator", NoGroup, NoInode)
      [] r.kind \in GroupRequests ->
            Meta("RaftGroup", r.raft_group, NoInode)
      [] r.kind \in LinkPrimitives \cup {"Lookup"} ->
            Meta("RaftGroup", NoGroup, r.parent)
      [] OTHER ->
            Meta("RaftGroup", NoGroup, r.inode)

\* LocalRaftGroupManager::has_raft_group / inode_stored_locally.
has_raft_group(local_rafts, group) == group \in local_rafts
inode_stored_locally(local_rafts, inode) == ShardOf(inode) \in local_rafts

can_handle_locally_ignoring_group(request_meta, local_rafts) ==
    CASE request_meta.distribution_requirement = "Any" -> TRUE
      [] request_meta.distribution_requirement = "TransactionCoordinator" -> TRUE
      [] request_meta.distribution_requirement = "Node" -> TRUE
      [] request_meta.distribution_requirement = "RaftGroup" ->
            inode_stored_locally(local_rafts, request_meta.inode)

can_handle_locally(request_meta, local_rafts) ==
    CASE request_meta.distribution_requirement = "Any" -> TRUE
      [] request_meta.distribution_requirement = "TransactionCoordinator" -> TRUE
      [] request_meta.distribution_requirement = "Node" -> TRUE
      [] request_meta.distribution_requirement = "RaftGroup" ->
            IF request_meta.raft_group # NoGroup
            THEN has_raft_group(local_rafts, request_meta.raft_group)
            ELSE inode_stored_locally(local_rafts, request_meta.inode)

\* rkyv::to_bytes of a response: the encoded envelope.
Encode(response) == <<"rkyv", response>>
NoBytes == <<"none", NoResponse>>

to_error_response(error_code) == Encode(Err(error_code))

\* One call of a collaborator: its name, the shard handle it is made on,
\* the request bytes and the commit index handed to it.
Call(op, shard, bytes, index) ==
    [op |-> op, shard |-> shard, bytes |-> bytes, index |-> index]

ForwardCall(request, request_meta) ==
    [op |-> "forward_raw_request", shard |-> NoGroup, bytes |-> request,
     index |-> 0, meta |-> request_meta]

Handled(cs, response) == [calls |-> cs, panic |-> FALSE, response |-> response]

forward_request_retrying(request, request_meta, o) ==
    IF o.forward.ok THEN Handled(<<ForwardCall(request, request_meta)>>, o.forward.bytes)
    ELSE Handled(<<ForwardCall(request, request_meta), ForwardCall(request, request_meta)>>,
                 to_error_response("Uncategorized"))

forward_request_rebuilt(request, request_meta, o) ==
    Handled(<<ForwardCall([request EXCEPT !.index = 0, !.fkind = ""], request_meta)>>,
            IF o.forward.ok THEN o.forward.bytes
            ELSE to_error_response("Uncategorized"))

forward_request(request, request_meta, o) ==
    Handled(<<ForwardCall(request, request_meta)>>,
            IF o.forward.ok THEN o.forward.bytes
            ELSE to_error_response("Uncategorized"))

\* The outcome of request_router_inner: the calls it made and either the
\* Result it returned or the panic it ended in.
Returns(cs, res) == [calls |-> cs, panic |-> FALSE, res |-> res]
Panics(cs) == [calls |-> cs, panic |-> TRUE, res |-> NoResponse]

\* raft.all_groups(), in the order the loop visits them.
RECURSIVE GroupsInOrder(_)
GroupsInOrder(groups) ==
    IF groups = {} THEN << >>
    ELSE LET g == CHOOSE x \in groups : \A y \in groups : x <= y
         IN  <<g>> \o GroupsInOrder(groups \ {g})

RECURSIVE LeaderLoopIgnoringErrors(_, _)
LeaderLoopIgnoringErrors(groups, o) ==
    IF groups = << >> THEN Returns(<< >>, Ok(0))
    ELSE LET rest == LeaderLoopIgnoringErrors(Tail(groups), o)
         IN  Returns(<<Call("get_leader", Head(groups), NoRequest, 0)>> \o rest.calls,
                     rest.res)

\* for node in raft.all_groups() { node.get_leader().await?; }
RECURSIVE LeaderLoop(_, _)
LeaderLoop(groups, o) ==
    IF groups = << >> THEN Returns(<< >>, Ok(0))
    ELSE LET c == Call("get_leader", Head(groups), NoRequest, 0)
         IN  IF o.leader[Head(groups)] # "ok"
             THEN Returns(<<c>>, Err(o.leader[Head(groups)]))
             ELSE LET rest == LeaderLoop(Tail(groups), o)
                  IN  Returns(<<c>> \o rest.calls, rest.res)

FilesystemReadyArm(local_rafts, o) ==
    LET loop == LeaderLoop(GroupsInOrder(local_rafts), o)
    IN  IF ~loop.res.ok THEN loop
        ELSE IF ~o.ready
        THEN Returns(loop.calls \o <<Call("wait_for_ready", NoGroup, NoRequest, 0)>>,
                     Err("Uncategorized"))
        ELSE Returns(loop.calls \o <<Call("wait_for_ready", NoGroup, NoRequest, 0)>>,
                     Ok(0))

FilesystemInformationArm(local_rafts, o) ==
    IF local_rafts = {} THEN Panics(<< >>)
    ELSE Returns(<<Call("statfs", Head(GroupsInOrder(local_rafts)), NoRequest, 0)>>,
                 o.storage_ok)

ProposeArm(request, o) ==
    Returns(<<Call("propose_raw", ProposeShard(request), request, 0)>>, o.propose)

CoordinatorArm(request, o) ==
    Returns(<<[op |-> "transaction", shard |-> NoGroup, bytes |-> NoRequest,
               index |-> 0, args |-> TransactionArm(request)]>>, o.txn)

ReadSyncTargetNone(latest_commit) == 0

\* The index the Read arm hands to sync.
ReadSyncTarget(latest_commit) == latest_commit

\* CommitId::new(0, latest_commit): the commit point handed to the storage
\* read, which the response carries.
ReadCommitId(latest_commit) == [term |-> 0, index |-> latest_commit]

ReadCall(s, commit_id) ==
    [op |-> "read", shard |-> s, bytes |-> NoRequest, index |-> commit_id.index,
     term |-> commit_id.term]

ReadArmIgnoringCommitError(request, o) ==
    LET s == lookup_by_inode(request.inode)
        c1 == Call("get_latest_commit_from_leader", s, NoRequest, 0)
        c2 == Call("sync", s, NoRequest, ReadSyncTarget(o.commit.val))
        c3 == ReadCall(s, ReadCommitId(o.commit.val))
    IN  IF o.sync # "ok" THEN Returns(<<c1, c2>>, Err(o.sync))
        ELSE Returns(<<c1, c2, c3>>, o.storage)

ReadArm(request, o) ==
    LET s == lookup_by_inode(request.inode)
        c1 == Call("get_latest_commit_from_leader", s, NoRequest, 0)
        c2 == Call("sync", s, NoRequest, ReadSyncTarget(o.commit.val))
        c3 == ReadCall(s, ReadCommitId(o.commit.val))
    IN  IF ~o.commit.ok THEN Returns(<<c1>>, o.commit)
        ELSE IF o.sync # "ok" THEN Returns(<<c1, c2>>, Err(o.sync))
        ELSE Returns(<<c1, c2, c3>>, o.storage)

ReadRawArm(request, o) ==
    LET s == lookup_by_inode(request.inode)
        c1 == Call("sync", s, NoRequest, request.index)
        c2 == Call("read_raw", s, NoRequest, 0)
    IN  IF o.sync # "ok" THEN Returns(<<c1>>, Err(o.sync))
        ELSE Returns(<<c1, c2>>, o.storage)

QueryOf(kind) ==
    CASE kind = "Lookup" -> "lookup"
      [] kind = "GetXattr" -> "get_xattr"
      [] kind = "GetAttr" -> "getattr"
      [] kind = "ListDir" -> "readdir"
      [] kind = "ListXattrs" -> "list_xattrs"

\* RaftNode::sync_with_leader: obtain the leader's commit index, then wait
\* until the local replica has applied the log up to it.
sync_with_leader(s, o) ==
    LET c1 == Call("get_latest_commit_from_leader", s, NoRequest, 0)
        c2 == Call("sync", s, NoRequest, o.commit.val)
    IN  IF ~o.commit.ok THEN Returns(<<c1>>, o.commit)
        ELSE IF o.sync # "ok" THEN Returns(<<c1, c2>>, Err(o.sync))
        ELSE Returns(<<c1, c2>>, Ok(0))

QueryShard(request) ==
    lookup_by_inode(IF request.kind = "Lookup" THEN request.parent
                    ELSE request.inode)

QueryArmNoSync(request, o) ==
    Returns(<<Call(QueryOf(request.kind), QueryShard(request), NoRequest, 0)>>,
            o.storage)

\* Lookup, GetXattr, GetAttr, ListDir, ListXattrs: sync_with_leader(..)?,
\* then the storage engine's query.
QueryArm(request, o) ==
    LET synced == sync_with_leader(QueryShard(request), o)
    IN  IF ~synced.res.ok THEN synced
        ELSE Returns(synced.calls
                        \o <<Call(QueryOf(request.kind), QueryShard(request), NoRequest, 0)>>,
                     o.storage)

LatestCommitArm(request, o) ==
    Returns(<<Call("get_latest_local_commit", lookup_by_raft_group(request.raft_group),
                   NoRequest, 0)>>,
            Ok(o.commit.val))

RaftGroupLeaderArm(request, o) ==
    LET s == lookup_by_raft_group(request.raft_group)
    IN  Returns(<<Call("get_leader", s, NoRequest, 0)>>,
                IF o.leader[s] = "ok" THEN Ok(1) ELSE Err(o.leader[s]))

\* merge_from_bytes(..).unwrap(); apply_messages(..).unwrap(); Ok(Empty)
RaftMessageArm(request, o) ==
    LET s == lookup_by_raft_group(request.raft_group)
        c == Call("apply_messages", s, NoRequest, 0)
    IN  IF ~o.parse THEN Panics(<< >>)
        ELSE IF ~o.apply THEN Panics(<<c>>)
        ELSE Returns(<<c>>, Ok(0))

request_router_inner(request, local_rafts, o) ==
    CASE request.kind = "FilesystemReady" -> FilesystemReadyArm(local_rafts, o)
      [] request.kind = "FilesystemInformation" -> FilesystemInformationArm(local_rafts, o)
      [] request.kind = "FilesystemCheck" ->
            Returns(<<Call("fsck", NoGroup, NoRequest, 0)>>, o.storage)
      [] request.kind = "FilesystemChecksum" ->
            Returns(<<Call("checksum_request", NoGroup, NoRequest, 0)>>, o.storage)
      [] request.kind = "CreateInode" -> ProposeArm(request, o)
      [] request.kind \in LinkPrimitives \cup InodePrimitives -> ProposeArm(request, o)
      [] request.kind \in Mutations -> ProposeArm(request, o)
      [] request.kind \in Transactions -> CoordinatorArm(request, o)
      [] request.kind = "Read" -> ReadArm(request, o)
      [] request.kind = "ReadRaw" -> ReadRawArm(request, o)
      [] request.kind \in Queries \ {"Read", "ReadRaw"} -> QueryArm(request, o)
      [] request.kind = "LatestCommit" -> LatestCommitArm(request, o)
      [] request.kind = "RaftGroupLeader" -> RaftGroupLeaderArm(request, o)
      [] request.kind = "RaftMessage" -> RaftMessageArm(request, o)

respond_uncategorized(res) ==
    IF res.ok THEN Encode(res) ELSE to_error_response("Uncategorized")

\* match request_router_inner(..) { Ok(r) => to_bytes(r), Err(e) =>
\* to_error_response(e) }
respond(res) ==
    IF res.ok THEN Encode(res) ELSE to_error_response(res.err)

request_router(request, local_rafts, o) ==
    IF ~can_handle_locally(meta_info(request), local_rafts)
    THEN forward_request(request, meta_info(request), o)
    ELSE LET inner == request_router_inner(request, local_rafts, o)
         IN  [calls |-> inner.calls, panic |-> inner.panic,
              response |-> IF inner.panic THEN NoBytes
                           ELSE respond(inner.res)]

\* ------------------------------------------------------------------------
\* RouterSpec: one node, one request at a time, every collaborator outcome
\* ------------------------------------------------------------------------
RouterInodes == {1, 2}

RouterRequests ==
    {Request(k, NoInode, "", NoInode, "", NoInode, NoGroup, "") :
        k \in {"FilesystemReady", "FilesystemInformation", "FilesystemCheck",
               "FilesystemChecksum"}}
    \cup {Request(k, NoInode, "", NoInode, "", NoInode, g, "") :
            k \in {"LatestCommit", "RaftGroupLeader", "RaftMessage"}, g \in Shards}
    \cup {CreateInodeReq(p, "File", g) : p \in RouterInodes, g \in Shards}
    \cup {Request(k, p, "a", NoInode, "", 3, NoGroup, "File") :
            k \in LinkPrimitives, p \in RouterInodes}
    \cup {Request(k, NoInode, "", NoInode, "", i, NoGroup, "") :
            k \in InodePrimitives \cup Mutations \cup (Queries \ {"Lookup", "ReadRaw"}),
            i \in RouterInodes}
    \cup {[Request("ReadRaw", NoInode, "", NoInode, "", i, NoGroup, "")
              EXCEPT !.index = 1] : i \in RouterInodes}
    \cup {LookupRequest(p, "a") : p \in RouterInodes}
    \cup {MkdirRequest(p, "a") : p \in RouterInodes}
    \cup {CreateRequest(p, "a", "File") : p \in RouterInodes}
    \cup {UnlinkRequest(p, "a") : p \in RouterInodes}
    \cup {RmdirRequest(p, "a") : p \in RouterInodes}
    \cup {HardlinkRequest(3, p, "b") : p \in RouterInodes}
    \cup {RenameRequest(p, "a", q, "b") : p \in RouterInodes, q \in RouterInodes}

RemoteReplies == {Encode(Ok(3)), Encode(Err("DoesNotExist"))}

\* The terms a shard leader can be in: an election precedes every leader.
LeaderTerms == {1, 2}

NoOutcome ==
    [leader |-> [s \in Shards |-> "ok"], ready |-> TRUE, propose |-> Ok(0),
     txn |-> Ok(0), commit |-> Ok(0), sync |-> "ok", storage |-> Ok(0),
     storage_ok |-> Ok(0), parse |-> TRUE, apply |-> TRUE, term |-> 0,
     applied |-> 0,
     forward |-> [ok |-> FALSE, bytes |-> NoBytes]]

Pick(used, choices, default) == IF used THEN choices ELSE {default}

\* What the collaborators can answer to the calls request r leads to.
OutcomesOf(r, local) ==
    [leader : Pick(local /\ r.kind \in {"FilesystemReady", "RaftGroupLeader"},
                   [Shards -> {"ok", "RaftFailure"}], NoOutcome.leader),
     ready : Pick(local /\ r.kind = "FilesystemReady", BOOLEAN, TRUE),
     propose : Pick(local /\ r.kind \in {"CreateInode"} \cup LinkPrimitives
                                  \cup InodePrimitives \cup Mutations,
                    {Ok(3), Err("AlreadyExists"), Err("RaftFailure")}, Ok(0)),
     txn : Pick(local /\ r.kind \in Transactions,
                {Ok(3), Err("AlreadyExists"), Err("RaftFailure")}, Ok(0)),
     commit : Pick(local /\ r.kind \in (Queries \ {"ReadRaw"}) \cup {"LatestCommit"},
                   {Ok(2)} \cup (IF r.kind \in Queries THEN {Err("RaftFailure")} ELSE {}),
                   Ok(0)),
     term : Pick(local /\ r.kind \in {"Read", "LatestCommit"}, LeaderTerms, 0),
     applied : Pick(local /\ r.kind \in Queries, 0 .. MaxApplied, 0),
     sync : Pick(local /\ r.kind \in Queries, {"ok", "RaftFailure"}, "ok"),
     storage : Pick(local /\ r.kind \in Queries \cup {"FilesystemCheck", "FilesystemChecksum"},
                    {Ok(3), Err("DoesNotExist")}, Ok(0)),
     storage_ok : {Ok(0)},
     parse : Pick(local /\ r.kind = "RaftMessage", BOOLEAN, TRUE),
     apply : Pick(local /\ r.kind = "RaftMessage", BOOLEAN, TRUE),
     forward : Pick(~local, {[ok |-> FALSE, bytes |-> NoBytes]}
                             \cup {[ok |-> TRUE, bytes |-> b] : b \in RemoteReplies},
                    NoOutcome.forward)]

\* ShardHandle::sync(target) returns Ok only once the local replica has
\* applied its log up to target; o.applied is the index the replica is at
\* when the handler goes on.
SyncContract(cs, o) ==
    \A i \in 1 .. Len(cs) :
        (cs[i].op = "sync" /\ o.sync = "ok") => o.applied >= cs[i].index

NoCalls == << >>

RouterIdle ==
    /\ aligned = NoRequest
    /\ meta = NoMeta
    /\ handled = FALSE
    /\ outcome = NoOutcome
    /\ calls = NoCalls
    /\ returned = [state |-> "waiting", bytes |-> NoBytes]

\* A request arrives: request_router reads its metadata and decides
\* whether this node can handle it.
Receive ==
    /\ returned.state # "routing"
    /\ \E r \in RouterRequests :
         /\ aligned' = r
         /\ meta' = meta_info(r)
         /\ handled' = can_handle_locally(meta_info(r), hosted)
    /\ outcome' = NoOutcome
    /\ calls' = NoCalls
    /\ returned' = [state |-> "routing", bytes |-> NoBytes]
    /\ UNCHANGED <<hosted, sagaVars, readVars>>

\* request_router runs to its end: the request is forwarded, or dispatched
\* by request_router_inner and its Result encoded; or the handler panics.
Route ==
    /\ returned.state = "routing"
    /\ \E o \in OutcomesOf(aligned, handled) :
         LET done == request_router(aligned, hosted, o)
         IN  /\ SyncContract(done.calls, o)
             /\ outcome' = o
             /\ calls' = done.calls
             /\ returned' = IF done.panic THEN [state |-> "panicked", bytes |-> NoBytes]
                            ELSE [state |-> "responded", bytes |-> done.response]
    /\ UNCHANGED <<hosted, aligned, meta, handled, sagaVars, readVars>>

\* ------------------------------------------------------------------------
\* ReadSpec: writes committed on the leaders, a replica that lags, one reader
\* ------------------------------------------------------------------------
ReadInodes == {1, 2}

WriteRequest(inode) ==
    Request("Write", NoInode, "", NoInode, "", inode, NoGroup, "")
ReadRequest(inode) ==
    Request("Read", NoInode, "", NoInode, "", inode, NoGroup, "")

IdleRead ==
    [pc |-> "idle", req |-> NoRequest, before |-> 0, lag |-> 0, latest |-> 0,
     at |-> 0, res |-> NoResponse]

ReadIdle ==
    /\ applied = [s \in Shards |-> 0]
    /\ rd = IdleRead

SagaIdle ==
    /\ log = [s \in Shards |-> << >>]
    /\ fs = [s \in Shards |-> InitShardState(s)]
    /\ txn = [t \in Txns |-> IdleTxn]

Committed == Len(log[0]) + Len(log[1])

\* Write arm: propose_raw on the shard owning the inode.
WriteArm ==
    /\ Committed < MaxWrites
    /\ \E i \in ReadInodes :
         LET r == WriteRequest(i)
             s == ProposeShard(r)
         IN  \E o \in Outcomes(r) :
               IF o.committed
               THEN /\ log' = [log EXCEPT ![s] = Append(@, [req |-> r, res |-> o.res, by |-> 0])]
                    /\ fs' = [fs EXCEPT ![s] = Apply(fs[s], r).fs]
               ELSE UNCHANGED <<log, fs>>
    /\ UNCHANGED <<txn, readVars, routerVars>>

\* The local replica of shard s applies the next committed entry.
Replicate(s) ==
    /\ applied[s] < Len(log[s])
    /\ applied' = [applied EXCEPT ![s] = @ + 1]
    /\ UNCHANGED <<rd, sagaVars, routerVars>>

\* A Read reaches its arm: the leader-commit-point lookup begins.
ReadBegin ==
    /\ rd.pc \in {"idle", "served", "failed"}
    /\ \E i \in ReadInodes :
         rd' = [IdleRead EXCEPT !.pc = "get_commit", !.req = ReadRequest(i),
                                !.before = Len(log[lookup_by_inode(i)]),
                                !.lag = applied[lookup_by_inode(i)]]
    /\ UNCHANGED <<applied, sagaVars, routerVars>>

\* get_latest_commit_from_leader().await?: the leader's commit index when it
\* answers, or an error returned to the client.
ReadGetCommit ==
    /\ rd.pc = "get_commit"
    /\ \/ rd' = [rd EXCEPT !.pc = "sync",
                           !.latest = Len(log[lookup_by_inode(rd.req.inode)])]
       \/ rd' = [rd EXCEPT !.pc = "failed", !.res = Err("RaftFailure")]
    /\ UNCHANGED <<applied, sagaVars, routerVars>>

\* sync(latest_commit).await?: returns once the local replica has applied
\* the log up to the target, or fails.
ReadSync ==
    /\ rd.pc = "sync"
    /\ \/ /\ applied[lookup_by_inode(rd.req.inode)] >= ReadSyncTarget(rd.latest)
          /\ rd' = [rd EXCEPT !.pc = "read"]
       \/ rd' = [rd EXCEPT !.pc = "failed", !.res = Err("RaftFailure")]
    /\ UNCHANGED <<applied, sagaVars, routerVars>>

\* file_storage().read(...): served from the local replica's state.
ReadServe ==
    /\ rd.pc = "read"
    /\ LET s == lookup_by_inode(rd.req.inode)
       IN  rd' = [rd EXCEPT !.pc = "served", !.at = applied[s],
                            !.res = ReadData(StateAt(s, applied[s]), rd.req.inode)]
    /\ UNCHANGED <<applied, sagaVars, routerVars>>

ReadInit ==
    /\ SagaIdle
    /\ ReadIdle
    /\ hosted = Shards
    /\ RouterIdle

ReadNext ==
    \/ WriteArm
    \/ \E s \in Shards : Replicate(s)
    \/ ReadBegin
    \/ ReadGetCommit
    \/ ReadSync
    \/ ReadServe

ReadSpec == ReadInit /\ [][ReadNext]_vars

RouterInit ==
    /\ SagaIdle
    /\ ReadIdle
    /\ hosted \in SUBSET Shards
    /\ RouterIdle

RouterNext ==
    \/ Receive
    \/ Route

RouterSpec == RouterInit /\ [][RouterNext]_vars

\* ------------------------------------------------------------------------
\* LocalitySpec: can_handle_locally over every routing metadata
\* ------------------------------------------------------------------------
\* RaftGroup metadata names a shard, an inode, or both.
MetaSpace ==
    {m \in [distribution_requirement : Requirements,
            raft_group : {NoGroup} \cup Shards,
            inode : {NoInode} \cup (1 .. MaxInode)] :
        m.distribution_requirement = "RaftGroup" =>
            (m.raft_group # NoGroup \/ m.inode # NoInode)}

ResolveLocality ==
    /\ \E m \in MetaSpace :
         /\ meta' = m
         /\ handled' = can_handle_locally(m, hosted)
    /\ UNCHANGED <<hosted, aligned, outcome, calls, returned, sagaVars, readVars>>

LocalityNext == ResolveLocality

LocalitySpec == RouterInit /\ [][LocalityNext]_vars

\* ------------------------------------------------------------------------
\* DeliverySpec: primitives arriving at their shard, some of them twice
\* ------------------------------------------------------------------------
DeliveredPrimitives ==
    {CreateLinkReq(q, "b", 3, "File") : q \in Parents}
    \cup {HardlinkIncrementReq(3), HardlinkRollbackReq(3), DecrementInodeReq(3),
          RemoveLinkReq(1, "b")}

\* A primitive arm proposes the bytes it received on the shard it resolves;
\* `by` is 0 for a first delivery and, for a repeated one, the index of the
\* entry the first delivery committed.
Propose(r, by) ==
    /\ Committed < MaxDeliveries
    /\ \E o \in Outcomes(r) :
         LET g == ProposeShard(r)
         IN  IF o.committed
             THEN /\ log' = [log EXCEPT ![g] = Append(@, [req |-> r, res |-> o.res, by |-> by])]
                  /\ fs' = [fs EXCEPT ![g] = Apply(fs[g], r).fs]
             ELSE UNCHANGED <<log, fs>>
    /\ UNCHANGED <<txn, readVars, routerVars>>

\* A coordinator's primitive reaches the node hosting its shard.
Deliver == \E r \in DeliveredPrimitives : Propose(r, 0)

\* A retried forward delivers the bytes of an already committed primitive
\* once more.
Redeliver ==
    \E g \in Shards : \E i \in 1 .. Len(log[g]) :
        /\ log[g][i].by = 0
        /\ Propose(log[g][i].req, i)

DeliveryNext ==
    \/ Deliver
    \/ Redeliver

DeliverySpec == ReadInit /\ [][DeliveryNext]_vars

Init ==
    /\ SagaIdle
    /\ ReadIdle
    /\ hosted = Shards
    /\ RouterIdle

Next ==
    \E t \in Txns :
        \/ Start(t)
        \/ CreateInodeStep(t)
        \/ CreateLinkStep(t)
        \/ CreateRollbackStep(t)
        \/ RemoveLinkStep(t)
        \/ DecrementInodeStep(t)
        \/ HardlinkIncrementStep(t)
        \/ HardlinkLinkStep(t)
        \/ HardlinkRollbackStep(t)
        \/ RenameLookupStep(t)
        \/ RenameLinkStep(t)
        \/ RenameUnlinkStep(t)
        \/ RenameParentStep(t)
        \/ Crash(t)
        \/ LookupOpen(t)
        \/ LookupServe(t)

Spec == Init /\ [][Next]_vars

\* The storage state is the log applied to the initial state.
FsIsLogApplied == \A s \in Shards : fs[s] = StateAt(s, Len(log[s]))

\* ------------------------------------------------------------------------
\* Properties of the sagas (checked under Spec)
\* ------------------------------------------------------------------------
Returned(t) == txn[t].pc \in {"done", "lookup_sync", "lookup_done"}

Settled == \A t \in Txns : txn[t].pc \in {"lookup_done", "crashed"}

\* The indexes of shard s's log holding a request of this kind proposed by t.
EntryIdx(s, t, kind) ==
    {i \in 1 .. Len(log[s]) : log[s][i].by = t /\ log[s][i].req.kind = kind}

InodeExists(i) == i \in DOMAIN fs[ShardOf(i)].inodes

\* All directory entries, of every shard, that refer to inode i.
EntriesTo(i) == {e \in UNION {fs[s].entries : s \in Shards} : e.inode = i}

\* A create saga whose create-inode succeeded and whose create-link failed.
LinkFailedCreate(t) ==
    /\ txn[t].args.op = "create"
    /\ txn[t].inode # NoInode
    /\ txn[t].err # ""

\* No state of any shard, at any index of its log, holds an entry to i.
NeverLinked(i) ==
    \A s \in Shards : \A k \in 0 .. Len(log[s]) :
        \A e \in StateAt(s, k).entries : e.inode # i

\* C2 as stated: once create-link has failed after create-inode succeeded
\* and the request has returned, the inode is gone from its shard (nothing
\* but this saga's compensation ever removes it, so "eventually removed"
\* must hold by the time every client has finished).
C2_RemovedInEveryExecution ==
    \A t \in Txns :
        (LinkFailedCreate(t) /\ Returned(t) /\ Settled) => ~InodeExists(txn[t].inode)

\* C2 amended: after create-inode succeeded and create-link failed, no
\* state of any shard ever links the inode under any name and no Lookup
\* returns it; a coordinator that has returned has proposed decrement-inode
\* on the inode, once and on the inode's shard, and the inode is removed
\* from its shard if that proposal was committed.
C2_NoLookupFindsOrphan ==
    \A t \in Txns :
        LinkFailedCreate(t) =>
            /\ NeverLinked(txn[t].inode)
            /\ \A u \in Txns : txn[u].lkres.ok => txn[u].lkres.val # txn[t].inode
            /\ \A s \in Shards :
                 /\ Cardinality(EntryIdx(s, t, "DecrementInode")) <= 1
                 /\ \A i \in EntryIdx(s, t, "DecrementInode") :
                      log[s][i].req.inode = txn[t].inode
            /\ Returned(t) =>
                 /\ txn[t].comp \in {"ok", "rejected", "failed"}
                 /\ ~txn[t].res.ok
                 /\ txn[t].comp \in {"ok", "rejected"} =>
                      /\ ~InodeExists(txn[t].inode)
                      /\ EntryIdx(ShardOf(txn[t].inode), t, "DecrementInode") # {}

C2_Witness ==
    \E t \in Txns :
        /\ LinkFailedCreate(t)
        /\ txn[t].pc = "lookup_done"
        /\ txn[t].comp = "ok"
        /\ ~InodeExists(txn[t].inode)
        /\ txn[t].lkres.ok

\* C3 as stated: every directory entry refers to an inode that exists on
\* its own shard and whose link count is at least the number of directory
\* entries referring to it.
C3_NoDanglingLink ==
    \A s \in Shards : \A e \in fs[s].entries :
        /\ InodeExists(e.inode)
        /\ fs[ShardOf(e.inode)].inodes[e.inode].nlink >= Cardinality(EntriesTo(e.inode))

\* The inode record of i in shard s after the first k entries of its log
\* (a record of link count -1 when the inode does not exist there).
Gone == [kind |-> "", nlink |-> -1, parent |-> NoInode, data |-> 0]

InodeAt(s, k, i) ==
    IF i \in DOMAIN StateAt(s, k).inodes THEN StateAt(s, k).inodes[i] ELSE Gone

\* No entry strictly between indexes i and j of shard s's log names inode x.
Undisturbed(s, i, j, x) ==
    \A k \in (i + 1) .. (j - 1) : log[s][k].req.inode # x

\* C4: hardlink-increment and hardlink-rollback are proposed on the shard
\* owning the target inode; each committed one changes the inode's link
\* count by exactly one and nothing else of the inode; a hardlink saga whose
\* create-link failed has proposed the rollback before it returns; and when
\* nothing else touched the inode between a saga's increment and its
\* rollback, the inode's record after the rollback is its record before
\* the increment.
C4_RollbackRestoresLinkCount ==
    /\ \A s \in Shards : \A k \in 1 .. Len(log[s]) :
         LET e == log[s][k]
         IN  /\ e.req.kind \in {"HardlinkIncrement", "HardlinkRollback"} =>
                  s = ShardOf(e.req.inode)
             /\ (e.req.kind = "HardlinkIncrement" /\ e.res.ok) =>
                  InodeAt(s, k, e.req.inode) =
                      [InodeAt(s, k - 1, e.req.inode) EXCEPT !.nlink = @ + 1]
             /\ (e.req.kind = "HardlinkRollback" /\ e.res.ok) =>
                  InodeAt(s, k, e.req.inode) =
                      [InodeAt(s, k - 1, e.req.inode) EXCEPT !.nlink = @ - 1]
    /\ \A t \in Txns :
         (txn[t].args.op = "hardlink" /\ txn[t].err # "") =>
            LET x == txn[t].args.inode
                s == ShardOf(x)
            IN  /\ Returned(t) => txn[t].comp \in {"ok", "rejected", "failed"}
                /\ txn[t].comp \in {"ok", "rejected"} =>
                     EntryIdx(s, t, "HardlinkRollback") # {}
                /\ \A i \in EntryIdx(s, t, "HardlinkIncrement") :
                   \A j \in EntryIdx(s, t, "HardlinkRollback") :
                     (log[s][j].res.ok /\ Undisturbed(s, i, j, x)) =>
                        /\ i < j
                        /\ InodeAt(s, j, x) = InodeAt(s, i - 1, x)

C4_Witness ==
    \E t \in Txns :
        /\ txn[t].args.op = "hardlink"
        /\ txn[t].err # ""
        /\ txn[t].comp = "ok"
        /\ Returned(t)
        /\ ShardOf(txn[t].args.inode) # ShardOf(txn[t].args.new_parent)
        /\ InodeExists(txn[t].args.inode)
        /\ fs[ShardOf(txn[t].args.inode)].inodes[txn[t].args.inode].nlink = 1

\* A rename whose old and new parent are on different shards.
CrossShardRename(t) ==
    /\ txn[t].req.kind = "Rename"
    /\ ShardOf(txn[t].req.parent) # ShardOf(txn[t].req.new_parent)

\* The renamed object is linked under the old or the new path of the request.
ReachableByOldOrNew(t) ==
    LET r == txn[t].req
    IN  \/ Child(fs[ShardOf(r.parent)], r.parent, r.name) = txn[t].inode
        \/ Child(fs[ShardOf(r.new_parent)], r.new_parent, r.new_name) = txn[t].inode

\* No other client has had a link primitive committed on the old or the
\* new path of t's request.
OthersKeptOff(t) ==
    \A s \in Shards : \A k \in 1 .. Len(log[s]) :
        LET e == log[s][k]
        IN  (e.by # t /\ e.res.ok /\ e.req.kind \in LinkPrimitives) =>
               /\ <<e.req.parent, e.req.name>> # <<txn[t].req.parent, txn[t].req.name>>
               /\ <<e.req.parent, e.req.name>> # <<txn[t].req.new_parent, txn[t].req.new_name>>

\* From the lookup of the object on, whatever the saga's position (between
\* two steps, crashed, returned), the object is reachable.
RenameKeepsReachable ==
    \A t \in Txns :
        (CrossShardRename(t) /\ txn[t].inode # NoInode /\ OthersKeptOff(t)) =>
            ReachableByOldOrNew(t)

\* Whatever remove-link a cross-shard rename has had committed is on the
\* request's old path, and by then its create-link of the renamed object
\* on the request's new path is committed.
RenameLinksBeforeUnlinking ==
    \A t \in Txns : CrossShardRename(t) =>
        \A s \in Shards : \A k \in EntryIdx(s, t, "RemoveLink") :
            LET r == txn[t].req
            IN  /\ log[s][k].req.parent = r.parent
                /\ log[s][k].req.name = r.name
                /\ \E j \in EntryIdx(ShardOf(r.new_parent), t, "CreateLink") :
                     LET c == log[ShardOf(r.new_parent)][j]
                     IN  /\ c.res.ok
                         /\ c.req.parent = r.new_parent
                         /\ c.req.name = r.new_name
                         /\ c.req.inode = txn[t].inode

\* C5: a cross-shard rename has create-link on the new parent committed
\* before remove-link on the old parent, so that in every state from the
\* lookup of the object on (between any two steps, after a crash of the
\* coordinator, after the return) the object is reachable by the old or the
\* new path, other clients leaving the two paths alone.
C5_RenameKeepsObjectReachable ==
    /\ RenameLinksBeforeUnlinking
    /\ RenameKeepsReachable

\* The coordinator crashed between create-link and remove-link: the object
\* is linked under both paths.
C5_Witness ==
    \E t \in Txns :
        /\ CrossShardRename(t)
        /\ txn[t].pc = "crashed"
        /\ EntryIdx(ShardOf(txn[t].req.new_parent), t, "CreateLink") # {}
        /\ EntryIdx(ShardOf(txn[t].req.parent), t, "RemoveLink") = {}
        /\ Child(fs[ShardOf(txn[t].req.new_parent)], txn[t].req.new_parent,
                 txn[t].req.new_name) = txn[t].inode
        /\ Child(fs[ShardOf(txn[t].req.parent)], txn[t].req.parent,
                 txn[t].req.name) = txn[t].inode

\* A Create or Mkdir that returned success with the new inode on another
\* shard than the parent.
CrossShardCreated(t) ==
    /\ txn[t].req.kind \in {"Create", "Mkdir"}
    /\ Returned(t)
    /\ txn[t].res.ok
    /\ ShardOf(txn[t].req.parent) # ShardOf(txn[t].inode)

RequestedKind(r) == IF r.kind = "Mkdir" THEN "Directory" ELSE r.fkind

\* At the step that returns success the inode exists with the requested
\* kind and the entry is in the parent's shard.
CreateReturnsCommitted ==
    \A t \in Txns :
        (~Returned(t) /\ CrossShardCreated(t)') =>
            LET r == txn[t].req
                i == txn'[t].inode
            IN  /\ txn'[t].res = Ok(i)
                /\ i \in DOMAIN fs'[ShardOf(i)].inodes
                /\ fs'[ShardOf(i)].inodes[i].kind = RequestedKind(r)
                /\ Child(fs'[ShardOf(r.parent)], r.parent, r.name) = i

\* The name has referred to the new inode in every state of the parent's
\* shard since the saga's create-link.
StillLinked(t) ==
    LET r == txn[t].req
        s == ShardOf(r.parent)
    IN  \A k \in EntryIdx(s, t, "CreateLink") : \A j \in k .. Len(log[s]) :
            Child(StateAt(s, j), r.parent, r.name) = txn[t].inode

LookupAfterCreateFindsIt ==
    \A t \in Txns :
        (/\ CrossShardCreated(t)
         /\ txn[t].pc = "lookup_done"
         /\ txn[t].lkres.err # "RaftFailure"
         /\ StillLinked(t)) =>
            /\ txn[t].lkreq.parent = txn[t].req.parent
            /\ txn[t].lkreq.name = txn[t].req.name
            /\ txn[t].lkres = Ok(txn[t].inode)

\* C10: when a cross-shard Create or Mkdir returns success, the new inode
\* exists on its shard with the requested kind (Directory for Mkdir) and the
\* entry name -> inode is committed on the parent's shard; a Lookup of the
\* name issued afterwards and served (its leader lookup did not fail)
\* returns the new inode, as long as no later entry of the parent's shard
\* has changed what the name refers to.
C10_CreateThenLookup ==
    /\ [][CreateReturnsCommitted]_vars
    /\ []LookupAfterCreateFindsIt

C10_Witness ==
    \E t \in Txns :
        /\ txn[t].req.kind = "Mkdir"
        /\ CrossShardCreated(t)
        /\ txn[t].pc = "lookup_done"
        /\ txn[t].lkres = Ok(txn[t].inode)
        /\ Len(log[ShardOf(txn[t].req.parent)]) > txn[t].latest


\* ------------------------------------------------------------------------
\* Properties of the Read arm (checked under ReadSpec)
\* ------------------------------------------------------------------------
\* The writes to the inode among the first n entries of shard s's log.
RECURSIVE WritesUpTo(_, _, _)
WritesUpTo(s, inode, n) ==
    IF n = 0 THEN 0
    ELSE WritesUpTo(s, inode, n - 1)
         + (IF log[s][n].req.kind = "Write" /\ log[s][n].req.inode = inode
               /\ log[s][n].res.ok
            THEN 1 ELSE 0)

\* C1: a served Read ran its storage read in a local replica state at or
\* beyond the commit index the leader reported for it, that index is at or
\* beyond every write committed before the leader lookup began, and the data
\* returned holds each of those writes.
C1_ReadSeesCommittedWrites ==
    rd.pc = "served" =>
        LET s == lookup_by_inode(rd.req.inode)
        IN  /\ rd.at >= rd.latest
            /\ rd.latest >= rd.before
            /\ rd.res.ok
            /\ rd.res.val >= WritesUpTo(s, rd.req.inode, rd.before)
            /\ rd.res.val = WritesUpTo(s, rd.req.inode, rd.at)

\* A Read served although the replica was behind a committed write when
\* the lookup began.
C1_Witness ==
    /\ rd.pc = "served"
    /\ rd.lag < rd.before
    /\ WritesUpTo(lookup_by_inode(rd.req.inode), rd.req.inode, rd.before) >= 1
    /\ rd.res.val >= 1

\* ------------------------------------------------------------------------
\* Properties of request_router (checked under RouterSpec, LocalitySpec)
\* ------------------------------------------------------------------------
Responded == returned.state = "responded"

LocalOps ==
    {"propose_raw", "sync", "sync_with_leader", "read", "read_raw", "lookup",
     "get_xattr", "getattr", "readdir", "list_xattrs", "statfs", "fsck",
     "checksum_request", "get_latest_commit_from_leader",
     "get_latest_local_commit", "get_leader", "apply_messages", "transaction",
     "wait_for_ready"}

ForwardCalls == {i \in 1 .. Len(calls) : calls[i].op = "forward_raw_request"}

\* The shard a RaftGroup request is for: the one it names, else the one
\* owning its inode.
RequestShard(m) ==
    IF m.raft_group # NoGroup THEN m.raft_group ELSE ShardOf(m.inode)

NotHostedRaftGroup ==
    /\ meta.distribution_requirement = "RaftGroup"
    /\ RequestShard(meta) \notin hosted

\* C6: a RaftGroup request whose shard is not hosted here is handed to the
\* remote shard client with exactly the bytes received, and when the forward
\* succeeds the bytes returned are exactly the remote response.
C6_ForwardsBytesUnchanged ==
    (Responded /\ NotHostedRaftGroup) =>
        /\ Len(calls) = 1
        /\ calls[1].op = "forward_raw_request"
        /\ calls[1].bytes = aligned
        /\ calls[1].meta = meta_info(aligned)
        /\ outcome.forward.ok => returned.bytes = outcome.forward.bytes

\* A request carrying a file kind, forwarded with success.
C6_Witness ==
    /\ Responded
    /\ NotHostedRaftGroup
    /\ aligned.fkind = "File"
    /\ outcome.forward.ok
    /\ returned.bytes = Encode(Ok(3))

\* C7: can_handle_locally is true for Any, TransactionCoordinator and Node;
\* for RaftGroup with a shard id it is true exactly when the shard is hosted;
\* for RaftGroup with only an inode, exactly when the inode's shard is hosted.
C7_CanHandleLocally ==
    meta # NoMeta =>
        /\ meta.distribution_requirement \in {"Any", "TransactionCoordinator", "Node"}
              => handled
        /\ (meta.distribution_requirement = "RaftGroup" /\ meta.raft_group # NoGroup)
              => (handled <=> meta.raft_group \in hosted)
        /\ (meta.distribution_requirement = "RaftGroup" /\ meta.raft_group = NoGroup)
              => (handled <=> ShardOf(meta.inode) \in hosted)

\* A RaftGroup request naming a hosted shard although the shard owning its
\* inode is not hosted.
C7_Witness ==
    /\ meta.distribution_requirement = "RaftGroup"
    /\ meta.raft_group # NoGroup
    /\ meta.raft_group \in hosted
    /\ meta.inode # NoInode
    /\ ShardOf(meta.inode) \notin hosted
    /\ handled

\* C8: request_router never raises: every routed request ends with one
\* response envelope, whatever its collaborators answer.
C8_NeverRaises ==
    /\ returned.state # "panicked"
    /\ Responded => returned.bytes # NoBytes

\* C9: a failed forward returns the Uncategorized error response after one
\* call of the remote shard client and no call on a local shard.
C9_ForwardFailureIsUncategorized ==
    (Responded /\ ~handled /\ ~outcome.forward.ok) =>
        /\ returned.bytes = to_error_response("Uncategorized")
        /\ Cardinality(ForwardCalls) = 1
        /\ \A i \in 1 .. Len(calls) : calls[i].op \notin LocalOps

\* A Write for a shard not hosted here whose forward failed.
C9_Witness ==
    /\ Responded
    /\ aligned.kind = "Write"
    /\ ~handled
    /\ ~outcome.forward.ok
    /\ Len(calls) = 1
    /\ returned.bytes = Encode(Err("Uncategorized"))


\* ------------------------------------------------------------------------
\* Properties of the read protocol and the proposing arms (RouterSpec)
\* ------------------------------------------------------------------------
ConsistentQueries == {"Read", "GetAttr", "ListDir", "ListXattrs", "Lookup", "GetXattr"}

StorageQueries == {"read", "lookup", "get_xattr", "getattr", "readdir", "list_xattrs"}

LocalQuery == Responded /\ handled /\ aligned.kind \in ConsistentQueries

\* C14: a locally handled Read, GetAttr, ListDir, ListXattrs, Lookup or
\* GetXattr obtains the leader's commit point, then waits until the local
\* replica has applied up to it, then queries the storage engine: the query
\* is never made with the replica below that commit point, and the handler
\* makes no proposal.
C14_CommitThenSyncThenQuery ==
    LocalQuery =>
        /\ \A i \in 1 .. Len(calls) :
              calls[i].op \in StorageQueries =>
                  /\ i = 3
                  /\ calls[1].op = "get_latest_commit_from_leader"
                  /\ calls[2].op = "sync"
                  /\ outcome.commit.ok
                  /\ calls[2].index = outcome.commit.val
                  /\ outcome.applied >= outcome.commit.val
                  /\ \A j \in 1 .. 3 : calls[j].shard = QueryShard(aligned)
        /\ \A i \in 1 .. Len(calls) : calls[i].op \notin {"propose_raw", "transaction"}

\* A GetAttr answered by the storage engine after the replica caught up.
C14_Witness ==
    /\ LocalQuery
    /\ aligned.kind = "GetAttr"
    /\ Len(calls) = 3
    /\ calls[3].op = "getattr"
    /\ outcome.applied >= outcome.commit.val
    /\ outcome.commit.val > 0
    /\ returned.bytes = Encode(Ok(3))

\* C15: when the leader's commit point cannot be obtained, the request is
\* answered with that error after the one leader lookup, with no sync and
\* no storage query.
C15_NoLeaderIsReported ==
    (LocalQuery /\ ~outcome.commit.ok) =>
        /\ returned.bytes = to_error_response(outcome.commit.err)
        /\ calls = <<Call("get_latest_commit_from_leader", QueryShard(aligned),
                          NoRequest, 0)>>

\* A Read whose leader lookup failed.
C15_Witness ==
    /\ LocalQuery
    /\ aligned.kind = "Read"
    /\ ~outcome.commit.ok
    /\ Len(calls) = 1
    /\ returned.bytes = Encode(Err("RaftFailure"))

\* C16: the commit point a Read is served at has the index and the term the
\* shard leader reported for that request.
C16_ServedAtLeaderCommitPoint ==
    (LocalQuery /\ aligned.kind = "Read" /\ Len(calls) = 3) =>
        /\ calls[3].index = outcome.commit.val
        /\ calls[3].term = outcome.term

ProposedKinds == {"CreateInode"} \cup LinkPrimitives \cup InodePrimitives \cup Mutations

\* The one shard a proposed request is for.
TargetShard(r) ==
    IF r.kind = "CreateInode" THEN r.raft_group
    ELSE IF r.kind \in LinkPrimitives THEN ShardOf(r.parent)
    ELSE ShardOf(r.inode)

LocalProposal == Responded /\ handled /\ aligned.kind \in ProposedKinds

\* C19: a locally handled primitive or single-shard mutation makes exactly
\* one proposal, of the bytes received, to the one shard it is for, and the
\* proposal's result or error is what the caller gets.
C19_OneProposalToOneShard ==
    LocalProposal =>
        /\ Len(calls) = 1
        /\ calls[1].op = "propose_raw"
        /\ calls[1].bytes = aligned
        /\ calls[1].shard = TargetShard(aligned)
        /\ calls[1].shard \in hosted
        /\ returned.bytes = IF outcome.propose.ok THEN Encode(outcome.propose)
                            ELSE to_error_response(outcome.propose.err)

\* A create-link whose parent and inode are on different shards, rejected
\* by the parent's shard.
C19_Witness ==
    /\ LocalProposal
    /\ aligned.kind = "CreateLink"
    /\ ShardOf(aligned.parent) # ShardOf(aligned.inode)
    /\ calls[1].shard = ShardOf(aligned.parent)
    /\ returned.bytes = Encode(Err("AlreadyExists"))

LeaderlessShards == {s \in hosted : outcome.leader[s] # "ok"}

WaitCalls == {i \in 1 .. Len(calls) : calls[i].op = "wait_for_ready"}

\* C20: FilesystemReady answers Empty exactly when every hosted shard
\* reported a leader and the remote wait succeeded; a failed leader lookup
\* is answered with its error before the remote wait starts; a failed remote
\* wait is answered with Uncategorized.
C20_ReadyNeedsLeadersAndRemotes ==
    (Responded /\ aligned.kind = "FilesystemReady") =>
        /\ returned.bytes = Encode(Ok(0))
              <=> (LeaderlessShards = {} /\ outcome.ready)
        /\ LeaderlessShards # {} =>
              /\ returned.bytes \in {to_error_response(outcome.leader[s]) :
                                        s \in LeaderlessShards}
              /\ WaitCalls = {}
        /\ (LeaderlessShards = {} /\ ~outcome.ready) =>
              /\ returned.bytes = to_error_response("Uncategorized")
              /\ Cardinality(WaitCalls) = 1

\* Two hosted shards, the second without a leader.
C20_Witness ==
    /\ Responded
    /\ aligned.kind = "FilesystemReady"
    /\ hosted = Shards
    /\ Cardinality(LeaderlessShards) = 1
    /\ Len(calls) = 2
    /\ returned.bytes = Encode(Err("RaftFailure"))


\* ------------------------------------------------------------------------
\* Further properties of the sagas (checked under Spec)
\* ------------------------------------------------------------------------
UnlinkSaga(t) == txn[t].args.op \in {"unlink", "rmdir"}

\* No other client's committed create-link names the inode x or the path
\* (parent, name).
NoOtherLink(t, x, parent, name) ==
    \A s \in Shards : \A k \in 1 .. Len(log[s]) :
        LET e == log[s][k]
        IN  (e.by # t /\ e.res.ok /\ e.req.kind = "CreateLink") =>
                /\ e.req.inode # x
                /\ ~(e.req.parent = parent /\ e.req.name = name)

\* C11: an Unlink or Rmdir proposes remove-link on the parent's shard and,
\* only once that is committed with success, decrement-inode on the child's
\* shard; it never proposes a link of any name; and when the decrement
\* fails, the request having returned, the name is absent and the child is
\* an inode no directory entry refers to (as long as no other client linked
\* the name or the child).
C11_UnlinkNeverRestoresTheName ==
    \A t \in Txns :
        UnlinkSaga(t) =>
            LET a == txn[t].args
                ps == ShardOf(a.parent)
                x == txn[t].inode
            IN  /\ \A s \in Shards :
                     /\ EntryIdx(s, t, "CreateLink") = {}
                     /\ EntryIdx(s, t, "ReplaceLink") = {}
                     /\ EntryIdx(s, t, "RemoveLink") # {} => s = ps
                     /\ Cardinality(EntryIdx(s, t, "RemoveLink")) <= 1
                     /\ \A i \in EntryIdx(s, t, "DecrementInode") :
                          /\ s = ShardOf(x)
                          /\ log[s][i].req.inode = x
                /\ (txn[t].pc = "decrement_inode"
                      \/ \E s \in Shards : EntryIdx(s, t, "DecrementInode") # {}) =>
                     \E i \in EntryIdx(ps, t, "RemoveLink") :
                         /\ log[ps][i].res.ok
                         /\ log[ps][i].res.val = x
                         /\ log[ps][i].req.parent = a.parent
                         /\ log[ps][i].req.name = a.name
                /\ (Returned(t) /\ txn[t].comp = "orphan"
                      /\ NoOtherLink(t, x, a.parent, a.name)) =>
                     /\ Child(fs[ps], a.parent, a.name) = NoInode
                     /\ InodeExists(x)
                     /\ EntriesTo(x) = {}

\* An Unlink that returned after its decrement-inode failed.
C11_Witness ==
    \E t \in Txns :
        /\ UnlinkSaga(t)
        /\ Returned(t)
        /\ txn[t].comp = "orphan"
        /\ InodeExists(txn[t].inode)
        /\ EntriesTo(txn[t].inode) = {}
        /\ Child(fs[ShardOf(txn[t].args.parent)], txn[t].args.parent,
                 txn[t].args.name) = NoInode


\* ------------------------------------------------------------------------
\* Repeated delivery of a primitive (checked under DeliverySpec)
\* ------------------------------------------------------------------------
\* The link count of every inode of a shard state.
LinkCounts(st) == [i \in DOMAIN st.inodes |-> st.inodes[i].nlink]

\* C12: a create-link or hardlink-increment that was committed with success
\* and is delivered to its shard once more leaves the directory entries and
\* the link counts as they were after the single delivery.
C12_RedeliveryCountsOnce ==
    \A g \in Shards : \A j \in 1 .. Len(log[g]) :
        LET e == log[g][j]
        IN  (e.by > 0 /\ log[g][e.by].res.ok
               /\ e.req.kind \in {"CreateLink", "HardlinkIncrement"}) =>
                /\ StateAt(g, j).entries = StateAt(g, j - 1).entries
                /\ LinkCounts(StateAt(g, j)) = LinkCounts(StateAt(g, j - 1))


\* ------------------------------------------------------------------------
\* Concurrent sagas on one name (checked under Spec)
\* ------------------------------------------------------------------------
LinkingSaga(t) == txn[t].args.op \in {"create", "hardlink"}

EveryEntry == UNION {fs[s].entries : s \in Shards}

\* The committed create-link proposals of client t, on any shard.
LinksProposedBy(t) ==
    UNION {{<<s, i>> : i \in EntryIdx(s, t, "CreateLink")} : s \in Shards}

\* C13: create-link proposals for a name are all committed in the log of the
\* parent's shard, which admits at most one entry per name in every state;
\* a create or hardlink whose create-link failed does not propose it again
\* and reports a failure to its caller.
C13_OneEntryPerName ==
    /\ \A e1 \in EveryEntry : \A e2 \in EveryEntry :
         (e1.parent = e2.parent /\ e1.name = e2.name) => e1 = e2
    /\ \A s \in Shards : \A k \in 1 .. Len(log[s]) :
         log[s][k].req.kind = "CreateLink" =>
            /\ s = ShardOf(log[s][k].req.parent)
            /\ ~log[s][k].res.ok =>
                  StateAt(s, k).entries = StateAt(s, k - 1).entries
    /\ \A t \in Txns :
         LinkingSaga(t) =>
            /\ Cardinality(LinksProposedBy(t)) <= 1
            /\ txn[t].err # "" =>
                 /\ txn[t].pc \notin {"create_inode", "create_link",
                                      "hardlink_increment", "hardlink_link"}
                 /\ \A x \in LinksProposedBy(t) : ~log[x[1]][x[2]].res.ok
                 /\ Returned(t) => ~txn[t].res.ok

\* Two creates of one name in one parent: one linked it, the other was
\* refused and returned the failure.
C13_Witness ==
    \E t \in Txns : \E u \in Txns :
        /\ t # u
        /\ txn[t].args.op = "create"
        /\ txn[u].args.op = "create"
        /\ txn[t].args.parent = txn[u].args.parent
        /\ txn[t].args.name = txn[u].args.name
        /\ Returned(t)
        /\ Returned(u)
        /\ txn[t].res.ok
        /\ txn[u].err = "AlreadyExists"
        /\ ~txn[u].res.ok


\* ------------------------------------------------------------------------
\* Sequencing of the saga steps (checked under Spec)
\* ------------------------------------------------------------------------
Proposing == InSaga \ {"rename_lookup"}

\* The primitives each client request is made of, compensation included.
StepKinds(kind) ==
    CASE kind \in {"Create", "Mkdir"} -> {"CreateInode", "CreateLink", "DecrementInode"}
      [] kind \in {"Unlink", "Rmdir"} -> {"RemoveLink", "DecrementInode"}
      [] kind = "Hardlink" -> {"HardlinkIncrement", "CreateLink", "HardlinkRollback"}
      [] kind = "Rename" -> {"CreateLink", "RemoveLink", "UpdateParent"}
      [] OTHER -> {}

\* The committed entries client t proposed, on any shard.
EntriesBy(t) ==
    UNION {{log[s][i] : i \in {k \in 1 .. Len(log[s]) : log[s][k].by = t}} : s \in Shards}

ProposedStep(t, kind) == \E e \in EntriesBy(t) : e.req.kind = kind

AckedStep(t, kind) == \E e \in EntriesBy(t) : e.req.kind = kind /\ e.res.ok

\* Every step of t follows the success of the step before it, and a
\* compensation follows the success of step 1 and the failure of step 2.
StepsInOrder(t) ==
    LET k == txn[t].req.kind
    IN  /\ \A e \in EntriesBy(t) : e.req.kind \in StepKinds(k)
        /\ \A e1 \in EntriesBy(t) : \A e2 \in EntriesBy(t) :
              e1.req.kind = e2.req.kind => e1 = e2
        /\ k \in {"Create", "Mkdir"} =>
              /\ ProposedStep(t, "CreateLink") => AckedStep(t, "CreateInode")
              /\ ProposedStep(t, "DecrementInode") =>
                    AckedStep(t, "CreateInode") /\ ~AckedStep(t, "CreateLink")
        /\ k \in {"Unlink", "Rmdir"} =>
              (ProposedStep(t, "DecrementInode") => AckedStep(t, "RemoveLink"))
        /\ k = "Hardlink" =>
              /\ ProposedStep(t, "CreateLink") => AckedStep(t, "HardlinkIncrement")
              /\ ProposedStep(t, "HardlinkRollback") =>
                    AckedStep(t, "HardlinkIncrement") /\ ~AckedStep(t, "CreateLink")
        /\ k = "Rename" =>
              /\ ProposedStep(t, "RemoveLink") => AckedStep(t, "CreateLink")
              /\ ProposedStep(t, "UpdateParent") => AckedStep(t, "RemoveLink")

Rank(pc) ==
    CASE pc = "idle" -> 0
      [] pc \in {"create_inode", "remove_link", "hardlink_increment", "rename_lookup"} -> 1
      [] pc \in {"create_link", "decrement_inode", "hardlink_link", "rename_link"} -> 2
      [] pc \in {"create_rollback", "hardlink_rollback", "rename_unlink"} -> 3
      [] pc = "rename_parent" -> 4
      [] pc \in {"done", "crashed"} -> 5
      [] pc = "lookup_sync" -> 6
      [] pc = "lookup_done" -> 7

\* A step of the system is a step of one client, moves that client forward
\* (no step is taken twice), and commits at most one proposal, of that
\* client, made from a proposing position.
OneStepAtATime ==
    /\ \A t \in Txns : txn'[t] # txn[t] => Rank(txn'[t].pc) > Rank(txn[t].pc)
    /\ \A t \in Txns : \A u \in Txns :
          (txn'[t] # txn[t] /\ txn'[u] # txn[u]) => t = u
    /\ \A s \in Shards : \A g \in Shards :
          (log'[s] # log[s] /\ log'[g] # log[g]) => s = g
    /\ \A s \in Shards :
          log'[s] # log[s] =>
              /\ Len(log'[s]) = Len(log[s]) + 1
              /\ txn[log'[s][Len(log'[s])].by].pc \in Proposing
              /\ txn'[log'[s][Len(log'[s])].by] # txn[log'[s][Len(log'[s])].by]

\* Some step of t failed: a step with a compensation, or the last step of
\* an Unlink or Rmdir.
StepFailed(t) == txn[t].err # "" \/ txn[t].comp = "orphan"

FailureReported ==
    \A t \in Txns :
        /\ StepsInOrder(t)
        /\ (Returned(t) /\ txn[t].err # "") => ~txn[t].res.ok
        /\ (Returned(t) /\ txn[t].comp = "orphan") =>
              /\ UnlinkSaga(t)
              /\ AckedStep(t, "RemoveLink")
              /\ ~AckedStep(t, "DecrementInode")
              /\ txn[t].res.ok

Response(t) == respond(txn[t].res)

Compensation(t) ==
    IF txn[t].args.op = "create" THEN "DecrementInode" ELSE "HardlinkRollback"

\* C18: a create or hardlink whose second step (create-link) failed and
\* whose compensation succeeded answers its caller with the error of the
\* create-link: the error its shard rejected it with, or the failure of its
\* proposal.
C18_OriginalErrorReported ==
    \A t \in Txns :
        (LinkingSaga(t) /\ Returned(t) /\ txn[t].comp = "ok") =>
            /\ txn[t].err # ""
            /\ AckedStep(t, Compensation(t))
            /\ ~AckedStep(t, "CreateLink")
            /\ \A e \in EntriesBy(t) :
                  e.req.kind = "CreateLink" => e.res.err = txn[t].err
            /\ ~ProposedStep(t, "CreateLink") => txn[t].err = "RaftFailure"
            /\ txn[t].res = Err(txn[t].err)
            /\ Response(t) = to_error_response(txn[t].err)

\* A hardlink refused because the name exists, rolled back, and answered
\* with that refusal.
C18_Witness ==
    \E t \in Txns :
        /\ txn[t].args.op = "hardlink"
        /\ Returned(t)
        /\ txn[t].comp = "ok"
        /\ txn[t].err = "AlreadyExists"
        /\ Response(t) = Encode(Err("AlreadyExists"))

====
